---- MODULE Spec2Model ----
(***************************************************************************)
(* Model of the language-model scorer of the CTC beam-search decoder       *)
(* (native_client/ctcdecode/scorer.cpp): the package loader and writer,    *)
(* the scoring-boundary test, the n-gram extraction from a prefix path,    *)
(* the conditional scorer and the sliding-window sentence scorer.          *)
(***************************************************************************)
EXTENDS Integers, Sequences, FiniteSets, TLC

VARIABLES
  language_model_,   \* Scorer::language_model_: 0 = null, else the id of the loaded LM
  max_order_,        \* Scorer::max_order_
  is_utf8_mode_,     \* Scorer::is_utf8_mode_
  alpha,             \* Scorer::alpha (double)
  beta,              \* Scorer::beta (double)
  dictionary,        \* Scorer::dictionary: null, or the automaton with the label sequences it accepts
  file,              \* the package file on disk that load_lm / save_dictionary work on
  op,                \* the last operation performed and what it observed
  ret,               \* the value returned by the last completed call
  words,             \* argument of get_log_cond_prob / get_sent_log_prob
  pc,                \* position inside get_sent_log_prob: "idle", "loop" or "done"
  win_start,         \* local of get_sent_log_prob
  win_end,           \* local of get_sent_log_prob
  score,             \* local of get_sent_log_prob
  calls,             \* the get_log_cond_prob calls made by the running get_sent_log_prob
  path,              \* labels of the PathTrie nodes from below the root to the prefix node
  ndebug,            \* the build: TRUE when NDEBUG is defined and assert() compiles to nothing
  saved,             \* the Scorer as the last save_dictionary wrote it, while the file is as written
  last_fail          \* category and result of the latest load that failed

vars == <<language_model_, max_order_, is_utf8_mode_, alpha, beta, dictionary,
          file, op, ret, words, pc, win_start, win_end, score, calls, path, ndebug,
          saved, last_fail>>

scorerVars == <<language_model_, max_order_, is_utf8_mode_, alpha, beta, dictionary>>
sentVars == <<pc, win_start, win_end, score, calls>>

(***************************************************************************)
(* Bounds of the model.                                                    *)
(***************************************************************************)
MaxLen == 3        \* longest sentence passed to the scorers
MaxOrder == 3      \* largest LM order
MaxPath == 5       \* longest prefix path below the root

Min(a, b) == IF a < b THEN a ELSE b

(***************************************************************************)
(* Scores.  A double is modelled exactly as a fixed-point integer counting *)
(* 1/ScoreUnit; the scale makes the two divisions by NUM_FLT_LOGE that a   *)
(* base score can go through exact.                                        *)
(***************************************************************************)
ScoreUnit == 10 * 10

\* decoder_utils.h: const float NUM_FLT_LOGE = 0.4342944819, as the ratio 10/23
NUM_FLT_LOGE == <<10, 23>>

\* scorer.h: const double OOV_SCORE = -1000.0
OOV_SCORE == (-1000) * ScoreUnit

\* x / NUM_FLT_LOGE
DivLogE(x) == (x * NUM_FLT_LOGE[2]) \div NUM_FLT_LOGE[1]

(***************************************************************************)
(* The external n-gram engine (KenLM), as scorer.cpp uses it.              *)
(***************************************************************************)
kUNK == 0          \* lm::kUNK, the index vocab.Index gives an unknown word
kBOS == 1          \* index of <s>
kEOS == 2          \* vocab.EndSentence()

\* The toy vocabulary: "cat" and "dog" are in the LM, every other word is not.
Vocabulary == <<"cat", "dog">>
WordUniverse == {"cat", "dog", "emu"}

\* vocab.Index(word)
VocabIndex(word) ==
  IF \E i \in 1..Len(Vocabulary) : Vocabulary[i] = word
  THEN kEOS + (CHOOSE i \in 1..Len(Vocabulary) : Vocabulary[i] = word)
  ELSE kUNK

NumIndex == kEOS + Len(Vocabulary) + 1

\* An lm::ngram::State holds at most order-1 words of context, newest last.
Truncate(ctx, n) ==
  IF Len(ctx) <= n THEN ctx ELSE SubSeq(ctx, Len(ctx) - n + 1, Len(ctx))

\* language_model_->BeginSentenceWrite(state)
BeginSentenceWrite == Truncate(<<kBOS>>, max_order_ - 1)

\* language_model_->NullContextWrite(state)
NullContextWrite == <<>>

RECURSIVE CtxCode(_)
CtxCode(ctx) ==
  IF ctx = <<>> THEN 0
  ELSE CtxCode(SubSeq(ctx, 1, Len(ctx) - 1)) * NumIndex + ctx[Len(ctx)]

\* The n-gram table: log10 P(word | ctx), a different value for every
\* (context, word) pair, so that nothing about the context is forgotten.
LmLogProb(ctx, word_index) ==
  (-(CtxCode(ctx) * NumIndex + word_index + 1)) * ScoreUnit

\* language_model_->BaseScore(in_state, word_index, out_state)
BaseScore(in_state, word_index) ==
  [score     |-> LmLogProb(in_state, word_index),
   out_state |-> Truncate(Append(in_state, word_index), max_order_ - 1)]

RECURSIVE JointPrefix(_, _)
JointPrefix(trace, k) ==
  IF k = 0 THEN 0
  ELSE JointPrefix(trace, k - 1) + LmLogProb(trace[k][1], trace[k][2])

(***************************************************************************)
(* Scorer::get_log_cond_prob(begin, end, bos, eos).  ws holds the words,   *)
(* begin and end are 0-based iterator positions.  The result records the   *)
(* returned value and the BaseScore calls made, as <<in_state, word>>.     *)
(***************************************************************************)
RECURSIVE CondProbLoop(_, _, _, _, _, _)
CondProbLoop(ws, it, end, in_state, cond_prob, trace) ==
  IF it = end
  THEN [oov |-> FALSE, in_state |-> in_state, cond_prob |-> cond_prob, trace |-> trace]
  ELSE LET word_index == VocabIndex(ws[it + 1]) IN
       IF word_index = kUNK
       THEN [oov |-> TRUE, in_state |-> in_state, cond_prob |-> cond_prob, trace |-> trace]
       ELSE LET r == BaseScore(in_state, word_index) IN
            CondProbLoop(ws, it + 1, end, r.out_state, r.score,
                         Append(trace, <<in_state, word_index>>))

\* Mutant: the scores of the range are added up instead of the last one kept.
get_log_cond_prob_sum(ws, begin, end, bos, eos) ==
  LET in0  == IF bos THEN BeginSentenceWrite ELSE NullContextWrite
      loop == CondProbLoop(ws, begin, end, in0, 0, <<>>)
      sum  == IF loop.trace = <<>> THEN 0
              ELSE JointPrefix(loop.trace, Len(loop.trace))
  IN IF loop.oov
     THEN [value |-> OOV_SCORE, trace |-> loop.trace]
     ELSE IF eos
          THEN [value |-> DivLogE(sum + BaseScore(loop.in_state, kEOS).score),
                trace |-> Append(loop.trace, <<loop.in_state, kEOS>>)]
          ELSE [value |-> DivLogE(sum), trace |-> loop.trace]

\* Mutant: an unknown word is skipped instead of ending the call.
get_log_cond_prob_skip(ws, begin, end, bos, eos) ==
  LET in0  == IF bos THEN BeginSentenceWrite ELSE NullContextWrite
      known == SelectSeq(SubSeq(ws, begin + 1, end), LAMBDA w : VocabIndex(w) # kUNK)
      loop == CondProbLoop(known, 0, Len(known), in0, 0, <<>>)
  IN IF eos
     THEN [value |-> DivLogE(BaseScore(loop.in_state, kEOS).score),
           trace |-> Append(loop.trace, <<loop.in_state, kEOS>>)]
     ELSE [value |-> DivLogE(loop.cond_prob), trace |-> loop.trace]

get_log_cond_prob(ws, begin, end, bos, eos) ==
  LET in0  == IF bos THEN BeginSentenceWrite ELSE NullContextWrite
      loop == CondProbLoop(ws, begin, end, in0, 0, <<>>)
  IN IF loop.oov
     THEN [value |-> OOV_SCORE, trace |-> loop.trace]
     ELSE IF eos
          THEN [value |-> DivLogE(BaseScore(loop.in_state, kEOS).score),
                trace |-> Append(loop.trace, <<loop.in_state, kEOS>>)]
          ELSE [value |-> DivLogE(loop.cond_prob), trace |-> loop.trace]

(***************************************************************************)
(* Inputs and the idle values of the parts a specification does not use.   *)
(***************************************************************************)
SeqsUpTo(S, n) == UNION {[1..k -> S] : k \in 0..n}

NoOp == [name |-> "none"]
NoSave == [valid |-> FALSE]
NoFail == [site |-> "none", ret |-> 0]

\* A dictionary pointer: null, or an automaton accepting a set of label sequences.
NullDict == [null |-> TRUE, accepts |-> {}]
Fst(accepted) == [null |-> FALSE, accepts |-> accepted]

\* The package file: whether it exists and access(R_OK) succeeds, the KenLM binary it
\* starts with (0: none that RecognizeBinary accepts), whether it ends before
\* that binary's end-of-search offset, and the fields that follow the offset.
NoFile == [readable |-> FALSE, lm |-> 0, short |-> FALSE, tail |-> <<>>]

SentIdle ==
  /\ pc = "idle"
  /\ win_start = 0
  /\ win_end = 0
  /\ score = 0
  /\ calls = <<>>

(***************************************************************************)
(* The scoring specification: a Scorer with a loaded LM of order           *)
(* max_order_, and a sentence to score.                                    *)
(***************************************************************************)
InitScore ==
  /\ language_model_ = 1
  /\ max_order_ \in 1..MaxOrder
  /\ is_utf8_mode_ = FALSE
  /\ alpha = 0
  /\ beta = 0
  /\ dictionary = NullDict
  /\ file = NoFile
  /\ op = NoOp
  /\ ret = 0
  /\ words \in SeqsUpTo(WordUniverse, MaxLen)
  /\ SentIdle
  /\ path = <<>>
  /\ ndebug = TRUE
  /\ saved = NoSave
  /\ last_fail = NoFail

\* A caller (the decoder, on a scoring boundary) calls get_log_cond_prob on
\* a range of the words.
CallGetLogCondProb ==
  /\ pc # "loop"
  /\ \E begin \in 0..Len(words), bos \in BOOLEAN, eos \in BOOLEAN :
       \E end \in begin..Len(words) :
         LET r == get_log_cond_prob(words, begin, end, bos, eos) IN
         /\ ret' = r.value
         /\ op' = [name |-> "get_log_cond_prob", begin |-> begin, end |-> end,
                   bos |-> bos, eos |-> eos, trace |-> r.trace]
  /\ UNCHANGED <<scorerVars, file, words, sentVars, path, ndebug, saved, last_fail>>

\* Scorer::get_sent_log_prob, entry: sent_len, score and the loop's
\* initialisation.
SentCall ==
  /\ pc # "loop"
  /\ pc' = "loop"
  /\ win_start' = 0
  /\ win_end' = 1
  /\ score' = 0
  /\ calls' = <<>>
  /\ op' = [name |-> "get_sent_log_prob"]
  /\ UNCHANGED <<scorerVars, file, ret, words, path, ndebug, saved, last_fail>>

\* Mutant: the window starts to slide one word before it is full.
SentIter_slide_early ==
  /\ pc = "loop"
  /\ win_end <= Len(words) + 1
  /\ LET sent_len == Len(words)
         win_size == win_end - win_start
         bos      == win_size < max_order_
         eos      == win_end = sent_len + 1
         end      == IF eos THEN win_end - 1 ELSE win_end
         r        == get_log_cond_prob(words, win_start, end, bos, eos)
     IN /\ score' = score + r.value
        /\ calls' = Append(calls, [begin |-> win_start, end |-> end,
                                   bos |-> bos, eos |-> eos, value |-> r.value])
        /\ win_start' = IF win_size >= max_order_ - 1 THEN win_start + 1 ELSE win_start
        /\ win_end' = win_end + 1
  /\ UNCHANGED <<scorerVars, file, op, ret, words, pc, path, ndebug, saved, last_fail>>

\* Mutant: an iteration on a full window slides it without taking the next
\* word in.
SentIter_slide_only ==
  /\ pc = "loop"
  /\ win_end <= Len(words) + 1
  /\ LET sent_len == Len(words)
         win_size == win_end - win_start
         bos      == win_size < max_order_
         eos      == win_end = sent_len + 1
         end      == IF eos THEN win_end - 1 ELSE win_end
         r        == get_log_cond_prob(words, win_start, end, bos, eos)
     IN /\ score' = score + r.value
        /\ calls' = Append(calls, [begin |-> win_start, end |-> end,
                                   bos |-> bos, eos |-> eos, value |-> r.value])
        /\ win_start' = IF win_size = max_order_ THEN win_start + 1 ELSE win_start
        /\ win_end' = IF win_size = max_order_ /\ ~eos THEN win_end ELSE win_end + 1
  /\ UNCHANGED <<scorerVars, file, op, ret, words, pc, path, ndebug, saved, last_fail>>

\* One iteration of the window loop.
SentIter ==
  /\ pc = "loop"
  /\ win_end <= Len(words) + 1
  /\ LET sent_len == Len(words)
         win_size == win_end - win_start
         bos      == win_size < max_order_
         eos      == win_end = sent_len + 1
         end      == IF eos THEN win_end - 1 ELSE win_end
         r        == get_log_cond_prob(words, win_start, end, bos, eos)
     IN /\ score' = score + r.value
        /\ calls' = Append(calls, [begin |-> win_start, end |-> end,
                                   bos |-> bos, eos |-> eos, value |-> r.value])
        /\ win_start' = IF win_size = max_order_ THEN win_start + 1 ELSE win_start
        /\ win_end' = win_end + 1
  /\ UNCHANGED <<scorerVars, file, op, ret, words, pc, path, ndebug, saved, last_fail>>

\* The loop's exit and the return statement.
SentReturn ==
  /\ pc = "loop"
  /\ ~(win_end <= Len(words) + 1)
  /\ ret' = DivLogE(score)
  /\ pc' = "done"
  /\ UNCHANGED <<scorerVars, file, op, words, win_start, win_end, score, calls, path, ndebug, saved, last_fail>>

NextScore ==
  \/ CallGetLogCondProb
  \/ SentCall
  \/ SentIter
  \/ SentReturn

SpecScore == InitScore /\ [][NextScore]_vars

\* get_sent_log_prob is sequential code: once entered, its loop runs on until
\* the return statement.
SpecScoreFair == SpecScore /\ WF_vars(SentIter) /\ WF_vars(SentReturn)

(***************************************************************************)
(* The alphabet and the prefix tree.  A string is the sequence of its      *)
(* bytes.  The prefix node's ancestors are all of the tree that the Scorer *)
(* reads, so the tree is the path to the prefix node: node 0 is the root   *)
(* (character -1, parent nullptr), node k > 0 carries path[k] and has      *)
(* parent k-1.                                                             *)
(***************************************************************************)
ROOT_ == -1
nullptr == -2

\* Word mode: labels 0, 1 are the letters a, b and label 2 is the space.
WordAlphabet == <<97, 98, 32>>
WordLabels == 0..(Len(WordAlphabet) - 1)

\* alphabet_.GetSpaceLabel(), kept in SPACE_ID_ by setup_char_map
SPACE_ID_ == CHOOSE l \in WordLabels : WordAlphabet[l + 1] = 32

\* UTF-8 mode: label l stands for the byte l + 1.  One byte of every class:
\* ASCII, continuation, the leading bytes of 2, 3 and 4 byte codepoints, and
\* a byte (11111000) that is none of them.
Utf8Bytes == {65, 169, 195, 226, 240, 248}
Utf8Labels == {b - 1 : b \in Utf8Bytes}

Labels == IF is_utf8_mode_ THEN Utf8Labels ELSE WordLabels

\* alphabet_.StringFromLabel(label), one byte per label
StringFromLabel(label) ==
  IF is_utf8_mode_ THEN label + 1 ELSE WordAlphabet[label + 1]

\* alphabet_.LabelsToString(labels)
LabelsToString(labels) == [i \in 1..Len(labels) |-> StringFromLabel(labels[i])]

character(node) == IF node = 0 THEN ROOT_ ELSE path[node]
parent(node) == IF node = 0 THEN nullptr ELSE node - 1

\* byte_is_codepoint_boundary: (c & 0xC0) != 0x80
byte_is_codepoint_boundary(c) == (c \div 64) # 2

\* PathTrie::distance_to_codepoint_boundary(&first_byte): the set of
\* outcomes.  When the walk meets the root before a boundary byte, the
\* function asserts; with NDEBUG it returns 0 and leaves first_byte unset,
\* which the caller then reads: any byte.
RECURSIVE distance_to_codepoint_boundary(_)
distance_to_codepoint_boundary(node) ==
  IF byte_is_codepoint_boundary(character(node) + 1)
  THEN {[abort |-> FALSE, distance |-> 1, first_byte |-> character(node) + 1]}
  ELSE IF parent(node) # nullptr /\ character(parent(node)) # ROOT_
       THEN {[abort |-> d.abort, distance |-> 1 + d.distance, first_byte |-> d.first_byte] :
               d \in distance_to_codepoint_boundary(parent(node))}
       ELSE IF ndebug
            THEN {[abort |-> FALSE, distance |-> 0, first_byte |-> b] : b \in Utf8Bytes}
            ELSE {[abort |-> TRUE, distance |-> 0, first_byte |-> 0]}

\* PathTrie::get_prev_grapheme(output, timesteps): the node it stops at and
\* the labels it collects.
RECURSIVE get_prev_grapheme(_)
get_prev_grapheme(node) ==
  IF character(node) = ROOT_
  THEN [stop |-> node, output |-> <<>>]
  ELSE IF ~byte_is_codepoint_boundary(character(node) + 1)
       THEN LET r == get_prev_grapheme(parent(node)) IN
            [stop |-> r.stop, output |-> Append(r.output, character(node))]
       ELSE [stop |-> node, output |-> <<character(node)>>]

\* PathTrie::get_prev_word(output, timesteps, space_id)
RECURSIVE get_prev_word(_, _)
get_prev_word(node, space_id) ==
  IF character(node) = space_id \/ character(node) = ROOT_
  THEN [stop |-> node, output |-> <<>>]
  ELSE IF parent(node) # nullptr
       THEN LET r == get_prev_word(parent(node), space_id) IN
            [stop |-> r.stop, output |-> Append(r.output, character(node))]
       ELSE [stop |-> node, output |-> <<character(node)>>]

(***************************************************************************)
(* Scorer::is_scoring_boundary(prefix, new_label): the set of outcomes,    *)
(* each the value returned or an abort (a failed assert in a build without *)
(* NDEBUG).                                                                *)
(***************************************************************************)
\* Mutant: a leading byte 11110xxx is taken for the leading byte of three bytes.
needed_bytes_short(first_byte) ==
  IF first_byte \div 16 >= 14 /\ first_byte \div 8 <= 30 THEN 3
  ELSE IF first_byte \div 32 = 6 THEN 2
  ELSE IF first_byte \div 128 = 0 THEN 1
  ELSE 0

needed_bytes(first_byte) ==
  IF first_byte \div 8 = 30 THEN 4
  ELSE IF first_byte \div 16 = 14 THEN 3
  ELSE IF first_byte \div 32 = 6 THEN 2
  ELSE IF first_byte \div 128 = 0 THEN 1
  ELSE 0

Returned(value) == [abort |-> FALSE, value |-> value]
Aborted == [abort |-> TRUE, value |-> FALSE]

is_scoring_boundary(prefix, new_label) ==
  IF is_utf8_mode_
  THEN IF character(prefix) = ROOT_
       THEN {Returned(FALSE)}
       ELSE {IF d.abort THEN Aborted
             ELSE IF needed_bytes(d.first_byte) = 0
                  THEN (IF ndebug THEN Returned(FALSE) ELSE Aborted)
                  ELSE Returned(d.distance = needed_bytes(d.first_byte)) :
               d \in distance_to_codepoint_boundary(prefix)}
  ELSE {Returned(new_label = SPACE_ID_)}

(***************************************************************************)
(* Scorer::make_ngram(prefix).                                             *)
(***************************************************************************)
Reverse(seq) == [i \in 1..Len(seq) |-> seq[Len(seq) + 1 - i]]

RECURSIVE make_ngram_loop(_, _, _)
make_ngram_loop(order, current_node, ngram) ==
  IF ~(order < max_order_)
  THEN ngram
  ELSE IF current_node = nullptr \/ character(current_node) = ROOT_
       THEN ngram
       ELSE LET r == IF is_utf8_mode_
                     THEN get_prev_grapheme(current_node)
                     ELSE get_prev_word(current_node, SPACE_ID_)
                word == LabelsToString(r.output)
            IN make_ngram_loop(order + 1, parent(r.stop), Append(ngram, word))

\* Mutant: the units are returned in the order of the walk, newest first.
make_ngram_unreversed(prefix) == make_ngram_loop(0, prefix, <<>>)

make_ngram(prefix) == Reverse(make_ngram_loop(0, prefix, <<>>))

(***************************************************************************)
(* The prefix-tree specification: the beam search grows a path label by    *)
(* label and asks the Scorer about its last node.                          *)
(***************************************************************************)
InitTrie ==
  /\ language_model_ = 1
  /\ max_order_ \in 1..MaxOrder
  /\ is_utf8_mode_ \in BOOLEAN
  /\ alpha = 0
  /\ beta = 0
  /\ dictionary = NullDict
  /\ file = NoFile
  /\ op = NoOp
  /\ ret = 0
  /\ words = <<>>
  /\ SentIdle
  /\ path = <<>>
  /\ ndebug \in BOOLEAN
  /\ saved = NoSave
  /\ last_fail = NoFail

\* The beam search extends the prefix by one label (a new PathTrie node).
Extend ==
  /\ pc = "idle"
  /\ Len(path) < MaxPath
  /\ \E label \in Labels : path' = Append(path, label)
  /\ op' = NoOp
  /\ ret' = 0
  /\ UNCHANGED <<scorerVars, file, words, sentVars, ndebug, saved, last_fail>>

\* The decoder passes the label it has just appended: in UTF-8 mode the
\* prefix is the new node itself, in word mode the prefix is its parent.
NewLabels ==
  IF is_utf8_mode_ /\ path # <<>> THEN {path[Len(path)]} ELSE Labels

CallIsScoringBoundary ==
  /\ pc = "idle"
  /\ \E new_label \in NewLabels :
       \E outcome \in is_scoring_boundary(Len(path), new_label) :
         /\ op' = [name |-> "is_scoring_boundary", new_label |-> new_label]
         /\ ret' = outcome
         /\ pc' = IF outcome.abort THEN "aborted" ELSE pc
  /\ UNCHANGED <<scorerVars, file, words, win_start, win_end, score, calls, path, ndebug, saved, last_fail>>

CallMakeNgram ==
  /\ pc = "idle"
  /\ op' = [name |-> "make_ngram"]
  /\ ret' = make_ngram(Len(path))
  /\ UNCHANGED <<scorerVars, file, words, sentVars, path, ndebug, saved, last_fail>>

NextTrie ==
  \/ Extend
  \/ CallIsScoringBoundary
  \/ CallMakeNgram

SpecTrie == InitTrie /\ [][NextTrie]_vars


(***************************************************************************)
(* The package: load_lm, load_trie, save_dictionary, reset_params,         *)
(* fill_dictionary.                                                        *)
(***************************************************************************)
MAGIC == 1414678853      \* 'TRIE'
FILE_VERSION == 6

NumLms == 1              \* KenLM binaries the environment can install
MaxDouble == 2           \* doubles are 0..MaxDouble
MaxSections == 2         \* sections save_dictionary may append to one file

Doubles == 0..MaxDouble
SectionLen == 6          \* magic, version, mode flag, alpha, beta, automaton

\* double -> float: the floats are the even numbers; a double half way
\* between two floats goes to the one with the even mantissa.
ToFloat(x) ==
  IF x % 2 = 0 THEN x
  ELSE IF ((x - 1) \div 2) % 2 = 0 THEN x - 1 ELSE x + 1

\* language_model_->Order() of an installed binary
Order(lm) == lm + 1

\* language_model_->GetEndOfSearchOffset() and util::SizeFile(fd), counted
\* in fields from the start of the file
EndOfSearchOffset(f) == 10 * f.lm
SizeFile(f) ==
  IF f.short THEN EndOfSearchOffset(f) - 1 ELSE EndOfSearchOffset(f) + Len(f.tail)

ScorerState ==
  [language_model_ |-> language_model_, max_order_ |-> max_order_,
   is_utf8_mode_ |-> is_utf8_mode_, alpha |-> alpha, beta |-> beta,
   dictionary |-> dictionary]

\* Scorer::reset_params(float alpha, float beta) applied to a Scorer
reset_params(sc, a, b) == [sc EXCEPT !.alpha = ToFloat(a), !.beta = ToFloat(b)]

\* A field of the file: its type and its value.
Field(type, value) == [type |-> type, value |-> value]

\* What an int that fin.read did not fill with an int may hold.
GarbageInts == {MAGIC, FILE_VERSION, FILE_VERSION - 1, FILE_VERSION + 1}

\* fin.read of field k of the stream into a destination of the given type:
\* the field's value; or, past the end of the file, whatever the destination
\* held (any value of unset, for a local that was never set); or, where the
\* file holds a field of another type, its bytes taken for this type (any
\* value of other).
ReadField(stream, k, type, unset, other) ==
  IF k > Len(stream) THEN unset
  ELSE IF stream[k].type = type THEN {stream[k].value}
  ELSE other

\* FstType::Read(fin, opt): the automaton, or null when the stream does not
\* hold one there.
ReadFst(stream, k) ==
  IF k <= Len(stream) /\ stream[k].type = "fst" THEN stream[k].value ELSE NullDict

\* An outcome of a load: the Scorer after it, the value returned, the return
\* statement taken (by error category), the text sent to std::cerr, and the
\* number of header fields read.
Outcome(sc, result, site, diag, reads) ==
  [scorer |-> sc, ret |-> result, site |-> site, diag |-> diag, reads |-> reads]

\* Mutant: the mode flag and the hyperparameters are read and set before the
\* version is checked.
load_trie_eager(sc, stream) ==
  UNION {
    IF magic # MAGIC
    THEN {Outcome(sc, 1, "bad-magic", "invalid header", 1)}
    ELSE UNION {
      IF version # FILE_VERSION
      THEN {Outcome([reset_params(sc, a, b) EXCEPT !.is_utf8_mode_ = mode],
                    1, "version-mismatch",
                    IF version < FILE_VERSION THEN "update your scorer file"
                                              ELSE "downgrade your scorer file", 5) :
              mode \in ReadField(stream, 3, "bool", {sc.is_utf8_mode_}, BOOLEAN),
              a \in ReadField(stream, 4, "double", Doubles, Doubles),
              b \in ReadField(stream, 5, "double", Doubles, Doubles)}
      ELSE {Outcome([reset_params(sc, a, b) EXCEPT
                       !.is_utf8_mode_ = mode,
                       !.dictionary = ReadFst(stream, SectionLen)],
                    0, "ok", "", SectionLen) :
              mode \in ReadField(stream, 3, "bool", {sc.is_utf8_mode_}, BOOLEAN),
              a \in ReadField(stream, 4, "double", Doubles, Doubles),
              b \in ReadField(stream, 5, "double", Doubles, Doubles)} :
      version \in ReadField(stream, 2, "int", GarbageInts, GarbageInts)} :
    magic \in ReadField(stream, 1, "int", GarbageInts, GarbageInts)}

\* Scorer::load_trie(fin, file_path): the set of outcomes, from the Scorer
\* sc and the fields from the stream position on.
load_trie(sc, stream) ==
  UNION {
    IF magic # MAGIC
    THEN {Outcome(sc, 1, "bad-magic", "invalid header", 1)}
    ELSE UNION {
      IF version # FILE_VERSION
      THEN {Outcome(sc, 1, "version-mismatch",
                    IF version < FILE_VERSION THEN "update your scorer file"
                                              ELSE "downgrade your scorer file", 2)}
      ELSE {Outcome([reset_params(sc, a, b) EXCEPT
                       !.is_utf8_mode_ = mode,
                       !.dictionary = ReadFst(stream, SectionLen)],
                    0, "ok", "", SectionLen) :
              mode \in ReadField(stream, 3, "bool", {sc.is_utf8_mode_}, BOOLEAN),
              a \in ReadField(stream, 4, "double", Doubles, Doubles),
              b \in ReadField(stream, 5, "double", Doubles, Doubles)} :
      version \in ReadField(stream, 2, "int", GarbageInts, GarbageInts)} :
    magic \in ReadField(stream, 1, "int", GarbageInts, GarbageInts)}

\* Mutant: a file that ends exactly at the LM's end offset passes the size test.
load_lm_strict(sc, f) ==
  IF ~f.readable
  THEN {Outcome(sc, 1, "input-unreadable", "", 0)}
  ELSE IF f.lm = 0
       THEN {Outcome(sc, 1, "format-unrecognized", "", 0)}
       ELSE LET loaded == [sc EXCEPT !.language_model_ = f.lm,
                                     !.max_order_ = Order(f.lm)]
                package_size == SizeFile(f)
                trie_offset == EndOfSearchOffset(f)
            IN IF package_size < trie_offset
               THEN {Outcome(loaded, 1, "truncated-artifact", "", 0)}
               ELSE load_trie(loaded, f.tail)

\* Mutant: a file without a section loads as a Scorer without a dictionary.
load_lm_no_trie_ok(sc, f) ==
  IF ~f.readable
  THEN {Outcome(sc, 1, "input-unreadable", "", 0)}
  ELSE IF f.lm = 0
       THEN {Outcome(sc, 1, "format-unrecognized", "", 0)}
       ELSE LET loaded == [sc EXCEPT !.language_model_ = f.lm,
                                     !.max_order_ = Order(f.lm)]
                package_size == SizeFile(f)
                trie_offset == EndOfSearchOffset(f)
            IN IF package_size <= trie_offset
               THEN {Outcome(loaded, 0, "truncated-artifact", "", 0)}
               ELSE load_trie(loaded, f.tail)

\* Scorer::load_lm(lm_path): the set of outcomes.
load_lm(sc, f) ==
  IF ~f.readable
  THEN {Outcome(sc, 1, "input-unreadable", "", 0)}
  ELSE IF f.lm = 0
       THEN {Outcome(sc, 1, "format-unrecognized", "", 0)}
       ELSE LET loaded == [sc EXCEPT !.language_model_ = f.lm,
                                     !.max_order_ = Order(f.lm)]
                package_size == SizeFile(f)
                trie_offset == EndOfSearchOffset(f)
            IN IF package_size <= trie_offset
               THEN {Outcome(loaded, 1, "truncated-artifact", "", 0)}
               ELSE load_trie(loaded, f.tail)

\* Scorer::save_dictionary(path, append_instead_of_overwrite): the file
\* after the call.  Appending needs an existing file and writes at its end;
\* overwriting leaves a file that holds the section alone.
Section(sc) ==
  <<Field("int", MAGIC), Field("int", FILE_VERSION), Field("bool", sc.is_utf8_mode_),
    Field("double", sc.alpha), Field("double", sc.beta), Field("fst", sc.dictionary)>>

\* Mutant: beta is written before alpha.
save_dictionary_swapped(sc, f, append_instead_of_overwrite) ==
  LET section == <<Field("int", MAGIC), Field("int", FILE_VERSION),
                   Field("bool", sc.is_utf8_mode_), Field("double", sc.beta),
                   Field("double", sc.alpha), Field("fst", sc.dictionary)>>
  IN IF append_instead_of_overwrite
     THEN IF f.readable /\ ~f.short
          THEN [f EXCEPT !.tail = f.tail \o section]
          ELSE f
     ELSE [readable |-> TRUE, lm |-> 0, short |-> FALSE, tail |-> section]

save_dictionary(sc, f, append_instead_of_overwrite) ==
  IF append_instead_of_overwrite
  THEN IF f.readable /\ ~f.short
       THEN [f EXCEPT !.tail = f.tail \o Section(sc)]
       ELSE f
  ELSE [readable |-> TRUE, lm |-> 0, short |-> FALSE, tail |-> Section(sc)]

\* The three reserved tokens, and the words of the toy vocabulary, as the
\* strings of the word alphabet.
START_TOKEN == <<60, 115, 62>>
UNK_TOKEN == <<60, 117, 110, 107, 62>>
END_TOKEN == <<60, 47, 115, 62>>
VocabularyLists ==
  { <<START_TOKEN, UNK_TOKEN, END_TOKEN>>,
    <<START_TOKEN, <<97, 98>>, <<98>>, END_TOKEN>> }

\* setup_char_map: char_map_[alphabet_.StringFromLabel(i)] = i + 1
CharMap(c) == 1 + (CHOOSE l \in WordLabels : WordAlphabet[l + 1] = c)
InCharMap(c) == \E l \in WordLabels : WordAlphabet[l + 1] = c

\* add_word_to_dictionary(word, char_map_, is_utf8_mode_, SPACE_ID_ + 1, &dictionary):
\* the path of the word, closed by the space in word mode; no path for a word
\* with a character outside the map.
WordPaths(word, utf8) ==
  IF \A i \in 1..Len(word) : InCharMap(word[i])
  THEN {[i \in 1..Len(word) |-> CharMap(word[i])]
          \o (IF utf8 THEN <<>> ELSE <<SPACE_ID_ + 1>>)}
  ELSE {}

\* Scorer::fill_dictionary(vocabulary): the new dictionary
fill_dictionary(sc, vocabulary) ==
  Fst(UNION {WordPaths(vocabulary[i], sc.is_utf8_mode_) :
               i \in {j \in 1..Len(vocabulary) :
                        /\ vocabulary[j] # START_TOKEN
                        /\ vocabulary[j] # UNK_TOKEN
                        /\ vocabulary[j] # END_TOKEN}})

(***************************************************************************)
(* The package specification: a Scorer, one package file, and the          *)
(* environment that installs, truncates and edits the file.                *)
(***************************************************************************)
Init ==
  /\ language_model_ = 0
  /\ max_order_ = 0
  /\ is_utf8_mode_ \in BOOLEAN
  /\ alpha = 0
  /\ beta = 0
  /\ dictionary = NullDict
  /\ file = NoFile
  /\ op = NoOp
  /\ ret = 0
  /\ words = <<>>
  /\ SentIdle
  /\ path = <<>>
  /\ ndebug = TRUE
  /\ saved = NoSave
  /\ last_fail = NoFail

SetScorer(sc) ==
  /\ language_model_' = sc.language_model_
  /\ max_order_' = sc.max_order_
  /\ is_utf8_mode_' = sc.is_utf8_mode_
  /\ alpha' = sc.alpha
  /\ beta' = sc.beta
  /\ dictionary' = sc.dictionary

\* Scorer::init(lm_path, alphabet): set_alphabet, then load_lm.
ScorerInit ==
  /\ pc = "idle"
  /\ \E o \in load_lm(ScorerState, file) :
       /\ SetScorer(o.scorer)
       /\ ret' = o.ret
       /\ op' = [name |-> "load", site |-> o.site, diag |-> o.diag,
                 reads |-> o.reads, before |-> ScorerState, prev |-> last_fail]
       /\ last_fail' = IF o.ret # 0 THEN [site |-> o.site, ret |-> o.ret]
                       ELSE last_fail
  /\ UNCHANGED <<file, words, sentVars, path, ndebug, saved>>

\* Scorer::save_dictionary(path, append).
\* dictionary->Write dereferences the dictionary: without one the process
\* dies, after the header was or was not flushed.
SaveOnto(append) ==
  /\ pc = "idle"
  /\ IF dictionary.null
     THEN /\ pc' = "aborted"
          /\ \E flushed \in BOOLEAN :
               file' = IF flushed
                       THEN LET g == save_dictionary(ScorerState, file, append) IN
                            [g EXCEPT !.tail = SubSeq(g.tail, 1, Len(g.tail) - 1)]
                       ELSE file
          /\ saved' = NoSave
     ELSE /\ pc' = pc
          /\ file' = save_dictionary(ScorerState, file, append)
          /\ saved' = [valid |-> (append => file.readable /\ ~file.short),
                       at |-> IF append THEN Len(file.tail) ELSE 0,
                       scorer |-> ScorerState]
  /\ op' = [name |-> "save_dictionary", append |-> append]
  /\ ret' = 0
  /\ UNCHANGED <<scorerVars, words, win_start, win_end, score, calls, path, ndebug, last_fail>>

\* The package is made: the section is appended to a copy of the LM binary,
\* or written alone to the path.
SaveDictionary ==
  \E append \in BOOLEAN :
    /\ append => file.tail = <<>>
    /\ SaveOnto(append)

\* save_dictionary appends to a file that already holds fields after the LM.
SaveDictionaryAgain ==
  /\ file.tail # <<>>
  /\ Len(file.tail) + SectionLen <= MaxSections * SectionLen
  /\ SaveOnto(TRUE)

\* Scorer::reset_params(alpha, beta)
ResetParams ==
  /\ pc = "idle"
  /\ \E a \in Doubles : SetScorer(reset_params(ScorerState, a, MaxDouble - a))
  /\ op' = [name |-> "reset_params"]
  /\ ret' = 0
  /\ UNCHANGED <<file, words, sentVars, path, ndebug, saved, last_fail>>

\* Scorer::fill_dictionary(vocabulary)
FillDictionary ==
  /\ pc = "idle"
  /\ \E vocabulary \in VocabularyLists :
       SetScorer([ScorerState EXCEPT !.dictionary = fill_dictionary(ScorerState, vocabulary)])
  /\ op' = [name |-> "fill_dictionary"]
  /\ ret' = 0
  /\ UNCHANGED <<file, words, sentVars, path, ndebug, saved, last_fail>>

FileChanged ==
  /\ op' = NoOp
  /\ ret' = 0
  /\ saved' = NoSave
  /\ UNCHANGED <<scorerVars, words, sentVars, path, ndebug, last_fail>>

\* The environment puts a file at the path: a KenLM binary, or (0) a file
\* that is none.
InstallLm ==
  /\ pc = "idle"
  /\ \E lm \in 0..NumLms :
       file' = [readable |-> TRUE, lm |-> lm, short |-> FALSE, tail |-> <<>>]
  /\ FileChanged

\* The environment removes the file.
RemoveFile ==
  /\ pc = "idle"
  /\ file.readable
  /\ file' = NoFile
  /\ FileChanged

\* The environment cuts the file: the last field after the LM goes, or, with
\* none left, the end of the LM itself.
TruncateFile ==
  /\ pc = "idle"
  /\ file.readable
  /\ ~file.short
  /\ file' = IF file.tail # <<>>
             THEN [file EXCEPT !.tail = SubSeq(file.tail, 1, Len(file.tail) - 1)]
             ELSE [file EXCEPT !.short = TRUE]
  /\ FileChanged

\* The file comes from another writer: one header field of the section at
\* the LM's end holds another value than save_dictionary wrote.
ForeignHeader ==
  /\ pc = "idle"
  /\ saved.valid
  /\ saved.at = 0
  /\ \E k \in 1..5 :
       \E v \in (CASE k = 1 -> {MAGIC + 1}
                   [] k = 2 -> {FILE_VERSION - 1, FILE_VERSION + 1}
                   [] k = 3 -> BOOLEAN
                   [] OTHER -> Doubles) :
         /\ v # file.tail[k].value
         /\ file' = [file EXCEPT !.tail[k].value = v]
  /\ FileChanged

Next ==
  \/ ScorerInit
  \/ SaveDictionary
  \/ ResetParams
  \/ FillDictionary
  \/ InstallLm
  \/ RemoveFile
  \/ TruncateFile
  \/ ForeignHeader

Spec == Init /\ [][Next]_vars

\* The package workflow alone: nothing but the Scorer and the installer touch
\* the file.
NextRoundTrip ==
  \/ ScorerInit
  \/ SaveDictionary
  \/ SaveDictionaryAgain
  \/ ResetParams
  \/ FillDictionary
  \/ InstallLm

SpecRoundTrip == Init /\ [][NextRoundTrip]_vars

(***************************************************************************)
(* Claims about the conditional scorer and the sentence scorer             *)
(* (checked under SpecScore).                                              *)
(***************************************************************************)
InVocabulary(word) == \E i \in 1..Len(Vocabulary) : Vocabulary[i] = word
AllInVocabulary(ws) == \A i \in 1..Len(ws) : InVocabulary(ws[i])

\* The joint score of a sentence: w1..wN and then end-of-sentence scored one
\* after the other from state, every result added.
RECURSIVE JointFrom(_, _, _)
JointFrom(ws, i, state) ==
  IF i > Len(ws)
  THEN BaseScore(state, kEOS).score
  ELSE LET r == BaseScore(state, VocabIndex(ws[i])) IN
       r.score + JointFrom(ws, i + 1, r.out_state)

JointScore(ws) == JointFrom(ws, 1, BeginSentenceWrite)

SentDoneInVocabulary == pc = "done" /\ AllInVocabulary(words)

\* C1 (as stated): when get_sent_log_prob has summed its windows over
\* in-vocabulary words, the sum (before the final division) equals the joint
\* score of the sentence, the plain sum of the N+1 base scores.
C1_SumIsJointScore ==
  SentDoneInVocabulary => score = JointScore(words)

\* C1 (amended): the sum of the window scores equals the joint score divided
\* once by NUM_FLT_LOGE, because every window's score is already converted.
C1_SumIsConvertedJointScore ==
  SentDoneInVocabulary => score = DivLogE(JointScore(words))

\* A sentence longer than the order, so that the window has slid.
C1_Witness ==
  /\ SentDoneInVocabulary
  /\ Len(words) = MaxLen
  /\ max_order_ = 2
  /\ win_start > 0
  /\ score = DivLogE(JointScore(words))

\* The three base scores of a call on two units with bos and eos.
TwoUnitCall ==
  /\ op.name = "get_log_cond_prob"
  /\ op.end = op.begin + 2
  /\ op.bos
  /\ op.eos
  /\ InVocabulary(words[op.begin + 1])
  /\ InVocabulary(words[op.begin + 2])

TwoUnitFirst == BaseScore(BeginSentenceWrite, VocabIndex(words[op.begin + 1]))
TwoUnitSecond == BaseScore(TwoUnitFirst.out_state, VocabIndex(words[op.begin + 2]))
TwoUnitEnd == BaseScore(TwoUnitSecond.out_state, kEOS)

\* C2 (as stated): on two in-vocabulary units with bos and eos,
\* get_log_cond_prob returns the converted sum of two successive base scores
\* threaded through a begin-of-sentence state.
C2_SumOfTwoBaseScores ==
  TwoUnitCall => ret = DivLogE(TwoUnitFirst.score + TwoUnitSecond.score)

\* C2 (amended): it makes three successive base_score calls (unit, unit,
\* end-of-sentence) threaded through a begin-of-sentence state and returns
\* the converted result of the last one alone.
C2_LastOfThreeBaseScores ==
  TwoUnitCall =>
    /\ ret = DivLogE(TwoUnitEnd.score)
    /\ op.trace = << <<BeginSentenceWrite, VocabIndex(words[op.begin + 1])>>,
                     <<TwoUnitFirst.out_state, VocabIndex(words[op.begin + 2])>>,
                     <<TwoUnitSecond.out_state, kEOS>> >>

C2_Witness ==
  /\ TwoUnitCall
  /\ max_order_ = 2
  /\ words[op.begin + 1] = "cat"
  /\ words[op.begin + 2] = "dog"
  /\ ret = DivLogE(TwoUnitEnd.score)

\* A call whose range holds an out-of-vocabulary unit.
OovCall ==
  /\ op.name = "get_log_cond_prob"
  /\ \E i \in (op.begin + 1)..op.end : ~InVocabulary(words[i])

\* C10: get_log_cond_prob returns the out-of-vocabulary constant whenever a
\* unit of the range is out of vocabulary, whatever its position, bos, eos
\* and the other units; it takes no end-of-sentence step.
C10_OovReturnsPenalty ==
  OovCall =>
    /\ ret = OOV_SCORE
    /\ \A k \in 1..Len(op.trace) : op.trace[k][2] # kEOS

\* The unknown unit comes last, after two scored units, with eos asked for.
C10_Witness ==
  /\ OovCall
  /\ op.eos
  /\ op.end = op.begin + 3
  /\ InVocabulary(words[op.begin + 1])
  /\ InVocabulary(words[op.begin + 2])
  /\ Len(op.trace) = 2
  /\ ret = OOV_SCORE

\* get_sent_log_prob has just returned.
SentDone == pc = "done" /\ op.name = "get_sent_log_prob"

\* The calls of a finished get_sent_log_prob: N+1 of them, eos on the last
\* alone, every range within [0, N]; for N = 0 the one call is the
\* end-of-sentence window over the empty range.
SentCalls ==
  SentDone =>
    /\ Len(calls) = Len(words) + 1
    /\ \A k \in 1..Len(calls) :
         /\ calls[k].eos <=> k = Len(calls)
         /\ 0 <= calls[k].begin
         /\ calls[k].begin <= calls[k].end
         /\ calls[k].end <= Len(words)
    /\ Len(words) = 0 =>
         /\ calls[1].begin = 0
         /\ calls[1].end = 0
         /\ calls[1].value =
              get_log_cond_prob(<<>>, 0, 0, 1 < max_order_, TRUE).value
         /\ score = calls[1].value
         /\ ret = DivLogE(calls[1].value)

\* C11: get_sent_log_prob on N words (max_order >= 1) returns, and has then
\* called the conditional scorer exactly N+1 times; exactly the last call has
\* eos, and every call's word range [begin, end) lies within [0, N].  For
\* N = 0 the one call is the end-of-sentence window over the empty range
\* [0, 0), and the result is that window's score after the final division.
C11_SentTerminates ==
  /\ []SentCalls
  /\ [](Len(calls) <= Len(words) + 1)
  /\ (pc = "loop") ~> SentDone

\* The empty sentence was scored: one call, the end-of-sentence window.
C11_Witness ==
  /\ SentDone
  /\ words = <<>>
  /\ Len(calls) = 1
  /\ calls[1].eos
  /\ calls[1].end = 0
  /\ ret = DivLogE(score)

(***************************************************************************)
(* Claims about the boundary test and the n-gram extraction (checked under *)
(* SpecTrie).                                                              *)
(***************************************************************************)
PathBytes == [i \in 1..Len(path) |-> path[i] + 1]

IsContinuation(b) == b >= 128 /\ b <= 191

\* The number of bytes of the codepoint a leading byte announces (0: none).
LeadLength(b) ==
  IF b <= 127 THEN 1
  ELSE IF b >= 192 /\ b <= 223 THEN 2
  ELSE IF b >= 224 /\ b <= 239 THEN 3
  ELSE IF b >= 240 /\ b <= 247 THEN 4
  ELSE 0

\* A UTF-8 decoder reading bytes from position i on: "end" when the bytes
\* end with the end of a codepoint, "inside" when they end inside a
\* multi-byte codepoint, "invalid" when they are no UTF-8.
RECURSIVE Utf8Scan(_, _)
Utf8Scan(bytes, i) ==
  IF i > Len(bytes) THEN "end"
  ELSE LET n == LeadLength(bytes[i]) IN
       IF n = 0 THEN "invalid"
       ELSE IF \E j \in (i + 1)..Min(i + n - 1, Len(bytes)) : ~IsContinuation(bytes[j])
            THEN "invalid"
            ELSE IF i + n - 1 > Len(bytes) THEN "inside"
                 ELSE Utf8Scan(bytes, i + n)

Utf8BoundaryCall == op.name = "is_scoring_boundary" /\ is_utf8_mode_

\* C3: in UTF-8 mode, on a path that is valid UTF-8 so far, is_scoring_boundary
\* returns true exactly at the last byte of a codepoint, and false inside a
\* multi-byte codepoint and at the root.
C3_BoundaryAtCodepointEnd ==
  Utf8BoundaryCall =>
    /\ path = <<>> => ret = Returned(FALSE)
    /\ path # <<>> /\ Utf8Scan(PathBytes, 1) = "end" => ret = Returned(TRUE)
    /\ Utf8Scan(PathBytes, 1) = "inside" => ret = Returned(FALSE)

\* The last byte of a four-byte codepoint that follows an ASCII byte.
C3_Witness ==
  /\ Utf8BoundaryCall
  /\ Len(path) = 5
  /\ LeadLength(PathBytes[2]) = 4
  /\ Utf8Scan(PathBytes, 1) = "end"
  /\ ret = Returned(TRUE)

\* The leading byte of the codepoint the prefix node is in: the nearest byte
\* at or before it that is no continuation byte (0 when there is none).
RECURSIVE LeadingByte(_, _)
LeadingByte(bytes, i) ==
  IF i = 0 THEN 0
  ELSE IF IsContinuation(bytes[i]) THEN LeadingByte(bytes, i - 1)
       ELSE bytes[i]

InvalidLeadCall ==
  /\ Utf8BoundaryCall
  /\ path # <<>>
  /\ LeadingByte(PathBytes, Len(path)) # 0
  /\ LeadLength(LeadingByte(PathBytes, Len(path))) = 0

\* C9: a leading byte that matches none of the four patterns is fatal where
\* it is detected: is_scoring_boundary returns no decision and nothing runs
\* after it.
C9_InvalidLeadIsFatal ==
  InvalidLeadCall => ret.abort /\ pc = "aborted"

\* Splitting a label sequence at every delimiter label, empty pieces kept.
RECURSIVE SplitLabels(_, _, _, _, _)
SplitLabels(labels, delim, i, cur, acc) ==
  IF i > Len(labels) THEN Append(acc, cur)
  ELSE IF labels[i] = delim
       THEN SplitLabels(labels, delim, i + 1, <<>>, Append(acc, cur))
       ELSE SplitLabels(labels, delim, i + 1, Append(cur, labels[i]), acc)

\* Grouping bytes into codepoints: a group starts at every byte that is no
\* continuation byte.
RECURSIVE GroupLabels(_, _, _, _)
GroupLabels(labels, i, cur, acc) ==
  IF i > Len(labels) THEN (IF cur = <<>> THEN acc ELSE Append(acc, cur))
  ELSE IF ~IsContinuation(labels[i] + 1) /\ cur # <<>>
       THEN GroupLabels(labels, i + 1, <<labels[i]>>, Append(acc, cur))
       ELSE GroupLabels(labels, i + 1, Append(cur, labels[i]), acc)

\* The scorable units of a path: its words (the non-empty pieces between
\* spaces), or its codepoints.
ScorableUnits ==
  IF is_utf8_mode_
  THEN GroupLabels(path, 1, <<>>, <<>>)
  ELSE SelectSeq(SplitLabels(path, SPACE_ID_, 1, <<>>, <<>>), LAMBDA u : u # <<>>)

\* The pieces make_ngram walks over: in word mode every piece between
\* spaces, the empty ones too, except an empty piece before the first label.
WalkedUnits ==
  IF is_utf8_mode_
  THEN GroupLabels(path, 1, <<>>, <<>>)
  ELSE LET pieces == SplitLabels(path, SPACE_ID_, 1, <<>>, <<>>) IN
       IF pieces[1] = <<>> THEN Tail(pieces) ELSE pieces

\* The last n of the units, oldest first, as strings.
TrailingUnits(units, n) ==
  LET k == Min(n, Len(units)) IN
  [i \in 1..k |-> LabelsToString(units[Len(units) - k + i])]

NgramCall == op.name = "make_ngram"

\* C4 (as stated): on a path of k scorable units (words, or the codepoints of
\* valid UTF-8) make_ngram returns exactly the last min(max_order, k) of
\* them, oldest first.
C4_NgramIsTrailingUnits ==
  NgramCall /\ (is_utf8_mode_ => Utf8Scan(PathBytes, 1) = "end") =>
    ret = TrailingUnits(ScorableUnits, max_order_)

\* C4 (amended): make_ngram returns the last min(max_order, k) of the pieces
\* it walks over, oldest first, where in word mode an empty piece (between
\* two spaces, or after a space the node itself carries) counts as a unit
\* and is returned as an empty string; never more than max_order units, and
\* only labels of the path, never the root's.
C4_NgramIsTrailingWalkedUnits ==
  NgramCall =>
    /\ ret = TrailingUnits(WalkedUnits, max_order_)
    /\ Len(ret) <= max_order_
    /\ \A i \in 1..Len(ret) : \A j \in 1..Len(ret[i]) :
         \E l \in Labels : ret[i][j] = StringFromLabel(l)

\* Three words and an order of two: the oldest word is left out.
C4_Witness ==
  /\ NgramCall
  /\ ~is_utf8_mode_
  /\ max_order_ = 2
  /\ path = <<0, SPACE_ID_, 1, SPACE_ID_, 0>>
  /\ ret = <<LabelsToString(<<1>>), LabelsToString(<<0>>)>>

(***************************************************************************)
(* Claims about the package loader and writer (checked under Spec and      *)
(* SpecRoundTrip).                                                         *)
(***************************************************************************)
IsField(f, k, type) == k <= Len(f.tail) /\ f.tail[k].type = type

\* The error category a file falls in, read off the file alone.
FileCategory(f) ==
  IF ~f.readable THEN "input-unreadable"
  ELSE IF f.lm = 0 THEN "format-unrecognized"
  ELSE IF SizeFile(f) <= EndOfSearchOffset(f) THEN "truncated-artifact"
  ELSE IF IsField(f, 1, "int") /\ f.tail[1].value # MAGIC THEN "bad-magic"
  ELSE IF IsField(f, 1, "int") /\ IsField(f, 2, "int")
          /\ f.tail[2].value # FILE_VERSION THEN "version-mismatch"
  ELSE IF IsField(f, 1, "int") /\ IsField(f, 2, "int") /\ IsField(f, 3, "bool")
          /\ IsField(f, 4, "double") /\ IsField(f, 5, "double") /\ IsField(f, 6, "fst")
       THEN "well-formed"
  ELSE "cut-inside-section"

ErrorCategories ==
  {"input-unreadable", "format-unrecognized", "truncated-artifact", "bad-magic",
   "version-mismatch"}

\* A load has just returned, on a file of one of the five error categories.
FailedLoad == op.name = "load" /\ FileCategory(file) \in ErrorCategories

\* C5 (as stated): a load that fails in one of the five categories leaves the
\* LM handle, max_order, the mode flag, alpha, beta and the dictionary as
\* they were before it.
C5_FailedLoadChangesNothing ==
  FailedLoad => ret # 0 /\ ScorerState = op.before

\* C5 (amended): such a load leaves the mode flag, alpha, beta and the
\* dictionary as they were; the LM handle and max_order are as they were
\* only for input-unreadable and format-unrecognized, and are already those
\* of the file's LM for truncated-artifact, bad-magic and version-mismatch.
C5_FailedLoadKeepsHeaderState ==
  FailedLoad =>
    /\ ret # 0
    /\ is_utf8_mode_ = op.before.is_utf8_mode_
    /\ alpha = op.before.alpha
    /\ beta = op.before.beta
    /\ dictionary = op.before.dictionary
    /\ IF FileCategory(file) \in {"input-unreadable", "format-unrecognized"}
       THEN /\ language_model_ = op.before.language_model_
            /\ max_order_ = op.before.max_order_
       ELSE /\ language_model_ = file.lm
            /\ max_order_ = Order(file.lm)

\* A version mismatch on a section whose alpha differs from the Scorer's, met
\* by a Scorer that had no LM.
C5_Witness ==
  /\ FailedLoad
  /\ FileCategory(file) = "version-mismatch"
  /\ Len(file.tail) = SectionLen
  /\ file.tail[4].value # alpha
  /\ op.before.language_model_ = 0
  /\ language_model_ = file.lm

\* C6 (as stated): two loads that fail in different categories return
\* different values, and both differ from the value of success.
C6_CategoriesDistinguished ==
  FailedLoad =>
    /\ ret # 0
    /\ op.prev.site \notin {"none", FileCategory(file)} => op.prev.ret # ret

\* C6 (amended): a load that fails in any of the five categories returns the
\* same value 1, which tells failure from success (0) but not one category
\* from another; a load of a well-formed package returns 0.
C6_FailureReturnsOne ==
  op.name = "load" =>
    /\ FileCategory(file) \in ErrorCategories => ret = 1 /\ op.site = FileCategory(file)
    /\ FileCategory(file) = "well-formed" => ret = 0 /\ op.site = "ok"

\* A bad magic after a missing section: both loads returned 1.
C6_Witness ==
  /\ FailedLoad
  /\ FileCategory(file) = "bad-magic"
  /\ op.prev.site = "truncated-artifact"
  /\ op.prev.ret = 1
  /\ ret = 1

\* A load has just returned, on a readable file that starts with an LM and
\* ends at or before the LM's end offset.
NoSectionLoad ==
  /\ op.name = "load"
  /\ file.readable
  /\ file.lm # 0
  /\ SizeFile(file) <= EndOfSearchOffset(file)

\* C8: a load of a file that ends at or before the LM's end offset fails as
\* truncated-artifact and reads no header field: nothing of the header or of
\* the automaton reaches the Scorer.
C8_NoSectionIsTruncated ==
  NoSectionLoad =>
    /\ ret = 1
    /\ op.site = "truncated-artifact"
    /\ op.reads = 0
    /\ is_utf8_mode_ = op.before.is_utf8_mode_
    /\ alpha = op.before.alpha
    /\ beta = op.before.beta
    /\ dictionary = op.before.dictionary

\* The file ends exactly at the offset.
C8_Witness ==
  /\ NoSectionLoad
  /\ SizeFile(file) = EndOfSearchOffset(file)
  /\ ~op.before.dictionary.null
  /\ ret = 1
  /\ op.reads = 0

\* The fields save_dictionary has just written.
Written == SubSeq(file.tail, saved.at + 1, Len(file.tail))

\* A Scorer that differs from the saved one in every field of the section.
OtherScorer ==
  [language_model_ |-> 0, max_order_ |-> 0, is_utf8_mode_ |-> ~is_utf8_mode_,
   alpha |-> ToFloat(MaxDouble) - alpha, beta |-> ToFloat(MaxDouble) - beta,
   dictionary |-> NullDict]

SameSection(sc, saver) ==
  /\ sc.alpha = saver.alpha
  /\ sc.beta = saver.beta
  /\ sc.is_utf8_mode_ = saver.is_utf8_mode_
  /\ sc.dictionary = saver.dictionary

\* A load has just returned, of the file as save_dictionary left it, with the
\* section written where load_lm reads: at the end offset of an LM.
LoadOfSaved ==
  /\ op.name = "load"
  /\ saved.valid
  /\ saved.at = 0
  /\ file.lm # 0

\* C7: what save_dictionary writes, a load reads back: alpha, beta, the mode
\* flag and the dictionary (the set of label sequences it accepts) are those
\* of the Scorer that saved, and the fields lie in the order magic, version,
\* mode flag, alpha, beta, automaton.
C7_RoundTrip ==
  /\ LoadOfSaved => ret = 0 /\ SameSection(ScorerState, saved.scorer)
  /\ op.name = "save_dictionary" /\ saved.valid =>
       /\ [k \in 1..Len(Written) |-> Written[k].type]
            = <<"int", "int", "bool", "double", "double", "fst">>
       /\ \A o \in load_trie(OtherScorer, Written) :
            o.ret = 0 /\ SameSection(o.scorer, ScorerState)

\* The Scorer was changed between the save and the load, and the load
\* brought every field back.
C7_Witness ==
  /\ LoadOfSaved
  /\ ret = 0
  /\ alpha # beta
  /\ op.before.alpha # alpha
  /\ op.before.beta # beta
  /\ op.before.dictionary # dictionary
  /\ dictionary.accepts # {}
  /\ SameSection(ScorerState, saved.scorer)

====
